---------------------------- MODULE Spec2Model ----------------------------
(***************************************************************************)
(* Model of excel_to_AOI.py: the geometry converter (km_to_degrees,        *)
(* create_rectangle), the overlay writer (generate_kml, create_kmz), the   *)
(* vector writer (generate_shapefile) and the "Generate Files" handler     *)
(* that runs them in sequence for one Streamlit session.                   *)
(***************************************************************************)
EXTENDS Integers, Naturals, Sequences, FiniteSets, TLC

VARIABLES
    geo,     \* the geometry harness: one create_rectangle call and its result
    fs,      \* the disk: the output directory and the files in it
    sess,    \* per Streamlit session: the upload, the sidebar inputs, the run
    active,  \* the sessions connected to the app
    clicks,  \* number of "Generate Files" clicks so far
    lastw,   \* for each file on disk, the session that wrote it last
    api      \* the last function called on its own, and what it did

vars == <<geo, fs, sess, active, clicks, lastw, api>>

(***************************************************************************)
(* Numbers.  Python floats are binary floating point: every arithmetic     *)
(* result is rounded to a fixed number of significant bits (53 for a       *)
(* double), ties to even, and results below the smallest positive value    *)
(* underflow to 0.  The model keeps that arithmetic and scales the format  *)
(* down: a number is an integer count of 2^-FracBits, and every operation  *)
(* rounds its exact result to MantBits significant bits.                   *)
(***************************************************************************)
FracBits == 11
MantBits == 15

Unit == 2 ^ FracBits

\* Operators below that use an argument several times bind it once with
\* {e : v \in {arg}}, so that the argument is evaluated a single time.
Abs(x) == CHOOSE r \in {IF v < 0 THEN -v ELSE v : v \in {x}} : TRUE

RECURSIVE Exp(_)
\* exponent of the rounding unit of a magnitude whose integer part is q
Exp(q) == IF q < 2 ^ MantBits THEN 0 ELSE 1 + Exp(q \div 2)

\* rounding unit (ulp) of the float x
Ulp(x) == 2 ^ Exp(Abs(x))

\* round to nearest, ties to even: k or k + 1 for the quotient k, remainder
\* r of a division by D
RoundHalfEven(k, r, D) ==
    IF (2 * r > D) \/ (2 * r = D /\ k % 2 = 1) THEN k + 1 ELSE k

\* n / d rounded to a multiple of ulp
RoundToUlp(n, d, ulp) ==
    RoundHalfEven(n \div (d * ulp), n % (d * ulp), d * ulp) * ulp

\* the float nearest to the exact rational n / d (n >= 0, d > 0)
RoundRat(n, d) ==
    CHOOSE r \in {RoundToUlp(nn, dd, 2 ^ Exp(nn \div dd)) :
                     nn \in {n}, dd \in {d}} : TRUE

\* the float nearest to the exact integer x (in units)
FRound(x) ==
    CHOOSE r \in {IF v < 0 THEN -RoundRat(-v, 1) ELSE RoundRat(v, 1) :
                     v \in {x}} : TRUE

Representable(x) == FRound(x) = x

FAdd(a, b) == FRound(a + b)
FSub(a, b) == FRound(a - b)
\* a / k for the integer literal k (k > 0)
FDivInt(a, k) ==
    CHOOSE r \in {IF v < 0 THEN -RoundRat(-v, k) ELSE RoundRat(v, k) :
                     v \in {a}} : TRUE
\* k * a for the integer literal k, a >= 0
FMulInt(k, a) == RoundRat(k * a, 1)
\* a / b for floats a >= 0, b > 0
FDiv(a, b) == RoundRat(a * Unit, b)

(***************************************************************************)
(* np.cos(np.radians(lat)) for the whole-degree latitudes the model uses,  *)
(* as the exact value times CosScale, then rounded to the float format.    *)
(***************************************************************************)
CosScale == 100000

CosTable(deg) ==
    CASE deg = 0  -> 100000
      [] deg = 13 -> 97437
      [] deg = 45 -> 70711
      [] deg = 60 -> 50000
      [] deg = 89 -> 1745

CosRadians(lat) == RoundRat(CosTable(Abs(lat) \div Unit) * Unit, CosScale)

(***************************************************************************)
(* km_to_degrees and create_rectangle                                      *)
(***************************************************************************)
KmPerDegree == 111

\* km_to_degrees without the cosine of the latitude
km_to_degrees_flat(lat, km, is_latitude) == FDivInt(km, KmPerDegree)

km_to_degrees(lat, km, is_latitude) ==
    IF is_latitude
    THEN FDivInt(km, KmPerDegree)
    ELSE FDiv(km, FMulInt(KmPerDegree, Abs(CosRadians(lat))))

lat_offset(lat, height_km) == km_to_degrees(lat, FDivInt(height_km, 2), TRUE)
lon_offset(lat, width_km) == km_to_degrees(lat, FDivInt(width_km, 2), FALSE)

\* the 4 corners as (lon, lat) pairs, in the order of the list literal
Corners(lat, lon, width_km, height_km) ==
    CHOOSE coordinates \in
        { << <<FSub(lon, dx), FAdd(lat, dy)>>,      \* Top-left
             <<FAdd(lon, dx), FAdd(lat, dy)>>,      \* Top-right
             <<FAdd(lon, dx), FSub(lat, dy)>>,      \* Bottom-right
             <<FSub(lon, dx), FSub(lat, dy)>> >> :  \* Bottom-left
          dy \in {lat_offset(lat, height_km)},
          dx \in {lon_offset(lat, width_km)} } : TRUE

\* shapely Polygon(coordinates): the shell is kept in the given order and
\* closed by repeating its first point
\* a shell left open
PolygonOfOpen(coordinates) == [exterior |-> coordinates]

PolygonOf(coordinates) ==
    CHOOSE p \in {[exterior |-> Append(c, c[1])] : c \in {coordinates}} : TRUE

create_rectangle(lat, lon, width_km, height_km) ==
    PolygonOf(Corners(lat, lon, width_km, height_km))

\* mean of the 4 corners' k-th coordinate, summed left to right in floats
Mean4(c, k) ==
    FDivInt(FAdd(FAdd(FAdd(c[1][k], c[2][k]), c[3][k]), c[4][k]), 4)

(***************************************************************************)
(* Strings and paths.  A file name is a sequence of pieces; a piece that   *)
(* starts with a dot (".kml", ".xlsx") is an extension-like piece.  A path *)
(* is a directory and a base name.                                         *)
(***************************************************************************)
DotPieces == {".kml", ".kmz", ".xlsx", ".shp", ".shx", ".dbf", ".prj", ".zip"}

RECURSIVE SplitDotFirst(_)
\* name.split('.')[0]: everything before the first dot
SplitDotFirst(name) ==
    IF name = <<>> \/ Head(name) \in DotPieces
    THEN <<>>
    ELSE <<Head(name)>> \o SplitDotFirst(Tail(name))

\* a replace whose pattern never matches
ReplaceNothing(base) == base

\* str.replace('.kml', '.kmz'): every occurrence is replaced
ReplaceKml(base) ==
    [i \in 1..Len(base) |-> IF base[i] = ".kml" THEN ".kmz" ELSE base[i]]

save_dir == "./AOI_Files"

PathJoin(dir, base) == [dir |-> dir, base |-> base]
Dirname(path) == path.dir
Basename(path) == path.base

KmlPath(file_name) ==
    PathJoin(save_dir, file_name \o <<"_AOIs_with_centers", ".kml">>)
KmzPath(kml_path) == PathJoin(Dirname(kml_path), ReplaceKml(Basename(kml_path)))
ShapefilePath(file_name) == PathJoin(save_dir, file_name)
WithExt(path, ext) == PathJoin(path.dir, path.base \o <<ext>>)

(***************************************************************************)
(* The disk.  Opening a file for writing ('w', ZipFile 'w', to_file)       *)
(* replaces whatever was at the path.                                      *)
(***************************************************************************)
EmptyDisk(dir) == [dir |-> dir, files |-> <<>>]

Exists(f, path) == path \in DOMAIN f.files

WriteFileKeep(f, path, content) ==
    IF Exists(f, path) THEN f ELSE [f EXCEPT !.files = (path :> content) @@ @]

WriteFile(f, path, content) == [f EXCEPT !.files = (path :> content) @@ @]

\* os.path.exists / os.makedirs of generate_kml
EnsureDir(f) == IF ~f.dir THEN [f EXCEPT !.dir = TRUE] ELSE f

(***************************************************************************)
(* The input table (DataFrame): its columns and its rows.  A coordinate    *)
(* cell holds a number, or a text that is no number.                       *)
(***************************************************************************)
RequiredColumns == {"CODE", "CENTER LAT", "CENTER LONG"}

Number(x) == [isnum |-> TRUE, val |-> x]
Text == [isnum |-> FALSE, val |-> 0]

IsNumber(cell) == cell.isnum

\* row['CODE'], row['CENTER LAT'], row['CENTER LONG'] raise KeyError when
\* the column is absent; the arithmetic of create_rectangle raises TypeError
\* on a cell that is no number
RowRaises(df, row) ==
    \/ ~(RequiredColumns \subseteq df.columns)
    \/ ~IsNumber(row.lat)
    \/ ~IsNumber(row.lon)

\* what lat and lon hold after the list comprehension of line 59: its loop
\* variables are local to the comprehension
AfterComprehensionLeaky(lon, lat, ring) == ring[Len(ring)]

AfterComprehension(lon, lat, ring) == <<lon, lat>>

PolygonFeature(code, coords) ==
    [kind |-> "Polygon", name |-> code, outerboundaryis |-> coords]

PointFeature(code, lat, lon) ==
    [kind |-> "Point", name |-> <<"Center", code, "Lat", lat, "Lon", lon>>,
     coords |-> <<lon, lat>>]

\* lines 56-69: the two features one row adds to the KML document
RowFeatures(row, width_km, height_km) ==
    CHOOSE fts \in
        { << PolygonFeature(row.code, coords),
             PointFeature(row.code,
                          AfterComprehension(row.lon.val, row.lat.val, coords)[2],
                          AfterComprehension(row.lon.val, row.lat.val, coords)[1]) >> :
          coords \in {create_rectangle(row.lat.val, row.lon.val, width_km,
                                       height_km).exterior} } : TRUE

RowPolygon(row, width_km, height_km) ==
    [CODE |-> row.code,
     geometry |-> create_rectangle(row.lat.val, row.lon.val, width_km,
                                   height_km)]

\* df.iterrows(): the rows in table order
IterRowsButLast(df) == SubSeq(df.rows, 1, Len(df.rows) - 1)

IterRows(df) == df.rows

RECURSIVE LoopRows(_, _, _, _, _)
\* the for loop of generate_kml from row i on, acc = [raised, features, polygons]
LoopRows(df, width_km, height_km, i, acc) ==
    IF i > Len(IterRows(df)) THEN acc
    ELSE IF RowRaises(df, IterRows(df)[i]) THEN [acc EXCEPT !.raised = TRUE]
    ELSE CHOOSE r \in
           { LoopRows(df, width_km, height_km, i + 1, next) :
             next \in {[acc EXCEPT
                          !.features = @ \o RowFeatures(IterRows(df)[i],
                                                        width_km, height_km),
                          !.polygons = Append(@, RowPolygon(IterRows(df)[i],
                                                            width_km,
                                                            height_km))]} } : TRUE

\* generate_kml(df, aoi_width_km, aoi_height_km, file_name) on disk f
KmlDocument(features) == [type |-> "kml", features |-> features]

\* lines 79-83: the document is saved and the path and the list returned
SaveKml(f1, kml_path, loop) ==
    IF loop.raised
    THEN [raised |-> TRUE, fs |-> f1, written |-> {}, nodir |-> FALSE,
          kml_path |-> <<>>, polygons |-> <<>>, kml |-> <<>>]
    ELSE [raised |-> FALSE,
          fs |-> WriteFile(f1, kml_path, KmlDocument(loop.features)),
          written |-> {kml_path}, nodir |-> FALSE,
          kml_path |-> kml_path, polygons |-> loop.polygons,
          kml |-> KmlDocument(loop.features)]

generate_kml(df, width_km, height_km, file_name, f) ==
    CHOOSE r \in
        { SaveKml(EnsureDir(f), KmlPath(file_name), loop) :
          loop \in {LoopRows(df, width_km, height_km, 1,
                             [raised |-> FALSE, features |-> <<>>,
                              polygons |-> <<>>])} } : TRUE

\* ZipFile(kmz_path, 'w'): a new archive; ZipFile(kmz_path, 'a') would keep
\* the entries of an archive already there
OpenZipAppend(f, path) ==
    IF Exists(f, path) /\ f.files[path].type = "zip"
    THEN f.files[path].entries ELSE <<>>

OpenZip(f, path) == <<>>

\* create_kmz(kml_path) on disk f
create_kmz(kml_path, f) ==
    LET kmz_path == KmzPath(kml_path)
        entries == OpenZip(f, kmz_path)
    IN  IF ~f.dir
        THEN [raised |-> TRUE, fs |-> f, written |-> {}, nodir |-> TRUE,
              kmz_path |-> <<>>]
        ELSE IF ~Exists(f, kml_path)
        THEN [raised |-> TRUE,
              fs |-> WriteFile(f, kmz_path, [type |-> "zip", entries |-> entries]),
              written |-> {kmz_path}, nodir |-> FALSE, kmz_path |-> <<>>]
        ELSE [raised |-> FALSE,
              fs |-> WriteFile(f, kmz_path,
                        [type |-> "zip",
                         entries |-> Append(entries,
                                       [name |-> Basename(kml_path),
                                        data |-> f.files[kml_path]])]),
              written |-> {kmz_path}, nodir |-> FALSE, kmz_path |-> kmz_path]

RECURSIVE DropDuplicatesKeepLast(_)
DropDuplicatesKeepLast(polygons) ==
    IF polygons = <<>> THEN <<>>
    ELSE IF \E i \in 2..Len(polygons) : polygons[i].CODE = Head(polygons).CODE
         THEN DropDuplicatesKeepLast(Tail(polygons))
         ELSE <<Head(polygons)>> \o DropDuplicatesKeepLast(Tail(polygons))

\* gdf.set_index('CODE'): CODE becomes the index; a pandas index may hold
\* the same key more than once, and every row is kept
SetIndex(polygons) == polygons

ShapefileExts == {".shp", ".shx", ".dbf", ".prj"}

\* generate_shapefile(polygons, file_name) on disk f
generate_shapefile(polygons, file_name, f) ==
    LET gdf == SetIndex(polygons)
        shapefile_path == ShapefilePath(file_name)
        shp == [type |-> "shp",
                geometry |-> [i \in 1..Len(gdf) |-> gdf[i].geometry]]
        shx == [type |-> "shx", records |-> Len(gdf)]
        dbf == [type |-> "dbf", CODE |-> [i \in 1..Len(gdf) |-> gdf[i].CODE]]
        prj == [type |-> "prj", crs |-> "EPSG:4326"]
        none == [raised |-> TRUE, fs |-> f, written |-> {}, nodir |-> FALSE,
                 shapefile_path |-> <<>>]
    IN  IF polygons = <<>>
        THEN none   \* no 'CODE' column in an empty frame: set_index raises
        ELSE IF ~f.dir
        THEN [none EXCEPT !.nodir = TRUE]   \* to_file into a missing directory
        ELSE [raised |-> FALSE,
              fs |-> WriteFile(WriteFile(WriteFile(WriteFile(f,
                        WithExt(shapefile_path, ".shp"), shp),
                        WithExt(shapefile_path, ".shx"), shx),
                        WithExt(shapefile_path, ".dbf"), dbf),
                        WithExt(shapefile_path, ".prj"), prj),
              written |-> {WithExt(shapefile_path, e) : e \in ShapefileExts},
              nodir |-> FALSE,
              shapefile_path |-> shapefile_path]

(***************************************************************************)
(* Geometry harness: create_rectangle applied to one drawn input.          *)
(***************************************************************************)
GeoLats == {d * Unit : d \in {-60, -13, 0, 13, 45, 89}}
GeoLons == {-180 * Unit, 0, 13 * Unit + 3, (155 * Unit) \div 2, 180 * Unit}
\* positive widths and heights in km, from the smallest positive float up
GeoKms == {1, 4, Unit, 8 * Unit, 62 * Unit, 100 * Unit}

GeoInit ==
    \E lat \in GeoLats, lon \in GeoLons, w \in GeoKms, h \in GeoKms :
        /\ Representable(lat) /\ Representable(lon)
        /\ geo = [lat |-> lat, lon |-> lon, width_km |-> w, height_km |-> h,
                  called |-> FALSE, coords |-> <<>>]
        /\ fs = EmptyDisk(FALSE)
        /\ sess = <<>>
        /\ active = {}
        /\ clicks = 0
        /\ lastw = <<>>
        /\ api = <<>>

GeoCreateRectangle ==
    /\ ~geo.called
    /\ geo' = [geo EXCEPT
                 !.called = TRUE,
                 !.coords = create_rectangle(geo.lat, geo.lon, geo.width_km,
                                             geo.height_km).exterior]
    /\ UNCHANGED <<fs, sess, active, clicks, lastw, api>>

GeoNext == GeoCreateRectangle

SpecGeo == GeoInit /\ [][GeoNext]_vars

(***************************************************************************)
(* Inputs of the runs                                                      *)
(***************************************************************************)
MaxRows == 2
MaxClicks == 2

Center1 == [lat |-> 13 * Unit, lon |-> (155 * Unit) \div 2]
Center2 == [lat |-> -45 * Unit, lon |-> 13 * Unit + 3]

Row(code, lat, lon) == [code |-> code, lat |-> lat, lon |-> lon]

GoodRows == {Row("A", Number(Center1.lat), Number(Center1.lon)),
             Row("B", Number(Center2.lat), Number(Center2.lon)),
             Row("A", Number(Center2.lat), Number(Center2.lon))}
\* a row whose CENTER LAT cell holds text
BadRows == {Row("B", Text, Number(Center1.lon))}

SeqsUpTo(S, n) == UNION {[1..k -> S] : k \in 0..n}

GoodTables == {[columns |-> RequiredColumns, rows |-> r] :
                  r \in SeqsUpTo(GoodRows, MaxRows)}
\* tables of the two-session runs: rows with distinct codes
ConcTables == {[columns |-> RequiredColumns, rows |-> r] :
                  r \in SeqsUpTo({Row("A", Number(Center1.lat), Number(Center1.lon)),
                                  Row("B", Number(Center2.lat), Number(Center2.lon))},
                                 MaxRows)}
AllTables ==
    {[columns |-> c, rows |-> r] :
        c \in {RequiredColumns} \cup {RequiredColumns \ {x} : x \in RequiredColumns},
        r \in SeqsUpTo(GoodRows \cup BadRows, MaxRows)}

UploadNames == {<<"a", ".xlsx">>, <<"a", ".kml", ".xlsx">>, <<"b", ".xlsx">>}
\* st.sidebar.number_input(min_value=1, max_value=100, value=8)
Dims == {<<8 * Unit, 8 * Unit>>, <<Unit, 100 * Unit>>}

NoGeo == [lat |-> 0, lon |-> 0, width_km |-> 0, height_km |-> 0,
          called |-> TRUE, coords |-> <<>>]
NoApi == [fn |-> "none", calls |-> 0, dir_before |-> FALSE, raised |-> FALSE,
          nodir |-> FALSE, written |-> {}, file_name |-> <<>>,
          kml_path |-> <<>>, kml |-> <<>>, kmz_path |-> <<>>, rows |-> 0,
          before |-> <<>>]

NewSession(name, df, d) ==
    [name |-> name, df |-> df, width_km |-> d[1], height_km |-> d[2],
     pc |-> "idle", runs |-> 0, wrote |-> {},
     kml_path |-> <<>>, polygons |-> <<>>, kml |-> <<>>, kmz_path |-> <<>>,
     shapefile_path |-> <<>>, first |-> <<>>]

\* line 152: the file name of a run
FileName(s) == SplitDotFirst(sess[s].name)

(***************************************************************************)
(* One session: an uploaded table, then "Generate Files" any number of     *)
(* times.                                                                  *)
(***************************************************************************)
Init ==
    /\ geo = NoGeo
    /\ api = NoApi
    /\ active = {1}
    /\ clicks = 0
    /\ lastw = <<>>
    /\ \E dir \in BOOLEAN : fs = EmptyDisk(dir)
    /\ \E name \in UploadNames, df \in AllTables, d \in Dims :
          sess = [s \in {1} |-> NewSession(name, df, d)]

(***************************************************************************)
(* Two sessions at once, each with a well-formed table.                    *)
(***************************************************************************)
InitConc ==
    /\ geo = NoGeo
    /\ api = NoApi
    /\ active = {1, 2}
    /\ clicks = 0
    /\ lastw = <<>>
    /\ fs = EmptyDisk(FALSE)
    /\ \E n1 \in {<<"a", ".xlsx">>}, n2 \in {<<"a", ".kml", ".xlsx">>, <<"b", ".xlsx">>},
          df1, df2 \in ConcTables :
          sess = [s \in {1, 2} |->
                    IF s = 1 THEN NewSession(n1, df1, <<8 * Unit, 8 * Unit>>)
                             ELSE NewSession(n2, df2, <<8 * Unit, 8 * Unit>>)]

Stamp(written, s) == [p \in written |-> s] @@ lastw

\* line 166: the button is pressed and the script runs again from the top
Click(s) ==
    /\ sess[s].pc \in {"idle", "done", "failed"}
    /\ clicks < MaxClicks
    /\ clicks' = clicks + 1
    /\ sess' = [sess EXCEPT ![s] =
                  [@ EXCEPT !.pc = "generate_kml", !.runs = @ + 1,
                            !.wrote = {}, !.kml_path = <<>>,
                            !.polygons = <<>>, !.kml = <<>>,
                            !.kmz_path = <<>>, !.shapefile_path = <<>>]]
    /\ UNCHANGED <<geo, fs, active, lastw, api>>

\* line 169
RunGenerateKml(s) ==
    /\ sess[s].pc = "generate_kml"
    /\ \E r \in {generate_kml(sess[s].df, sess[s].width_km, sess[s].height_km,
                             FileName(s), fs)} :
           /\ fs' = r.fs
           /\ lastw' = Stamp(r.written, s)
           /\ sess' = [sess EXCEPT ![s] =
                         [@ EXCEPT
                            !.pc = IF r.raised THEN "failed" ELSE "create_kmz",
                            !.wrote = @ \cup r.written,
                            !.kml_path = r.kml_path,
                            !.polygons = r.polygons,
                            !.kml = r.kml]]
    /\ UNCHANGED <<geo, active, clicks, api>>

\* line 172
RunCreateKmz(s) ==
    /\ sess[s].pc = "create_kmz"
    /\ \E r \in {create_kmz(sess[s].kml_path, fs)} :
           /\ fs' = r.fs
           /\ lastw' = Stamp(r.written, s)
           /\ sess' = [sess EXCEPT ![s] =
                         [@ EXCEPT
                            !.pc = IF r.raised THEN "failed"
                                   ELSE "generate_shapefile",
                            !.wrote = @ \cup r.written,
                            !.kmz_path = r.kmz_path]]
    /\ UNCHANGED <<geo, active, clicks, api>>

\* line 175
RunGenerateShapefile(s) ==
    /\ sess[s].pc = "generate_shapefile"
    /\ \E r \in {generate_shapefile(sess[s].polygons, FileName(s), fs)} :
           /\ fs' = r.fs
           /\ lastw' = Stamp(r.written, s)
           /\ sess' = [sess EXCEPT ![s] =
                         [@ EXCEPT
                            !.pc = IF r.raised THEN "failed" ELSE "downloads",
                            !.wrote = @ \cup r.written,
                            !.shapefile_path = r.shapefile_path]]
    /\ UNCHANGED <<geo, active, clicks, api>>

\* lines 178-190: the KMZ is read back and the 4 shapefile files are zipped
RunDownloads(s) ==
    /\ sess[s].pc = "downloads"
    /\ LET path == sess[s].shapefile_path
           zip_path == WithExt(path, ".zip")
           exts == <<".shp", ".shx", ".dbf", ".prj">>
           ok == /\ Exists(fs, sess[s].kmz_path)
                 /\ \A i \in 1..4 : Exists(fs, WithExt(path, exts[i]))
           zip == [type |-> "zip",
                   entries |-> [i \in 1..4 |->
                                  [name |-> path.base \o <<exts[i]>>,
                                   data |-> fs.files[WithExt(path, exts[i])]]]]
       IN  IF ok
           THEN /\ fs' = WriteFile(fs, zip_path, zip)
                /\ lastw' = Stamp({zip_path}, s)
                /\ sess' = [sess EXCEPT ![s] =
                              [@ EXCEPT
                                 !.pc = "done",
                                 !.wrote = @ \cup {zip_path},
                                 !.first = IF @ = <<>> /\ sess[s].runs = 1
                                           THEN fs'.files ELSE @]]
           ELSE /\ sess' = [sess EXCEPT ![s] = [@ EXCEPT !.pc = "failed"]]
                /\ UNCHANGED <<fs, lastw>>
    /\ UNCHANGED <<geo, active, clicks, api>>

Next ==
    \/ \E s \in active : Click(s)
    \/ \E s \in active : RunGenerateKml(s)
    \/ \E s \in active : RunCreateKmz(s)
    \/ \E s \in active : RunGenerateShapefile(s)
    \/ \E s \in active : RunDownloads(s)

Spec == Init /\ [][Next]_vars

SpecConc == InitConc /\ [][Next]_vars

(***************************************************************************)
(* The three functions called on their own, in any order, by a caller that *)
(* builds the arguments itself.                                            *)
(***************************************************************************)
MaxCalls == 3

ApiTables ==
    {[columns |-> RequiredColumns, rows |-> r] :
        r \in {<<>>,
               <<Row("A", Number(Center1.lat), Number(Center1.lon))>>,
               <<Row("A", Number(Center1.lat), Number(Center1.lon)),
                 Row("A", Number(Center2.lat), Number(Center2.lon))>>}}
ApiFileNames == {<<"a">>, <<"a", ".kml">>}
ApiWidth == 8 * Unit
ApiHeight == 8 * Unit

\* the list of {'CODE', 'geometry'} records a caller builds for a table
PolygonsOf(df) ==
    LoopRows(df, ApiWidth, ApiHeight, 1,
             [raised |-> FALSE, features |-> <<>>, polygons |-> <<>>]).polygons

InitApi ==
    /\ geo = NoGeo
    /\ api = NoApi
    /\ active = {}
    /\ clicks = 0
    /\ lastw = <<>>
    /\ sess = <<>>
    /\ \E dir \in BOOLEAN : fs = EmptyDisk(dir)

Called(fn, r, file_name, rows) ==
    [fn |-> fn, calls |-> api.calls + 1, dir_before |-> fs.dir,
     raised |-> r.raised, nodir |-> r.nodir, written |-> r.written,
     file_name |-> file_name, rows |-> rows, before |-> fs.files,
     kml_path |-> api.kml_path, kml |-> api.kml, kmz_path |-> api.kmz_path]

ApiGenerateKml ==
    /\ api.calls < MaxCalls
    /\ \E df \in ApiTables, file_name \in ApiFileNames :
       \E r \in {generate_kml(df, ApiWidth, ApiHeight, file_name, fs)} :
           /\ fs' = r.fs
           /\ api' = [Called("generate_kml", r, file_name, Len(df.rows))
                        EXCEPT !.kml_path = r.kml_path, !.kml = r.kml]
    /\ UNCHANGED <<geo, sess, active, clicks, lastw>>

\* create_kmz on the path generate_kml has just returned
ApiCreateKmz ==
    /\ api.calls < MaxCalls
    /\ api.fn = "generate_kml" /\ ~api.raised
    /\ \E r \in {create_kmz(api.kml_path, fs)} :
           /\ fs' = r.fs
           /\ api' = [Called("create_kmz", r, api.file_name, api.rows)
                        EXCEPT !.kmz_path = r.kmz_path]
    /\ UNCHANGED <<geo, sess, active, clicks, lastw>>

ApiGenerateShapefile ==
    /\ api.calls < MaxCalls
    /\ \E df \in ApiTables, file_name \in ApiFileNames :
       \E r \in {generate_shapefile(PolygonsOf(df), file_name, fs)} :
           /\ fs' = r.fs
           /\ api' = Called("generate_shapefile", r, file_name, Len(df.rows))
    /\ UNCHANGED <<geo, sess, active, clicks, lastw>>

NextApi ==
    \/ ApiGenerateKml
    \/ ApiCreateKmz
    \/ ApiGenerateShapefile

SpecApi == InitApi /\ [][NextApi]_vars

(***************************************************************************)
(* Properties                                                              *)
(***************************************************************************)
InUiRange(km) == Unit <= km /\ km <= 100 * Unit

Max2(a, b) == IF a >= b THEN a ELSE b

\* the largest magnitude among the k-th coordinates of the 4 corners
MaxAbs(c, k) ==
    Max2(Max2(Abs(c[1][k]), Abs(c[2][k])), Max2(Abs(c[3][k]), Abs(c[4][k])))

\* x is the exact value v rounded to a float
IsRounded(x, v) == 2 * Abs(x - v) <= Ulp(x)

GeoDy == lat_offset(geo.lat, geo.height_km)
GeoDx == lon_offset(geo.lat, geo.width_km)

\* the 4 corners are center -/+ dx, center +/- dy, each rounded to a float
CornersByFormula(c, lat, lon, dx, dy) ==
    /\ IsRounded(c[1][1], lon - dx) /\ IsRounded(c[1][2], lat + dy)
    /\ IsRounded(c[2][1], lon + dx) /\ IsRounded(c[2][2], lat + dy)
    /\ IsRounded(c[3][1], lon + dx) /\ IsRounded(c[3][2], lat - dy)
    /\ IsRounded(c[4][1], lon - dx) /\ IsRounded(c[4][2], lat - dy)

PairwiseDistinct4(c) == Cardinality({c[i] : i \in 1..4}) = 4

\* C1 as stated: for every center with |lat| < 90 and every width_km > 0 and
\* height_km > 0, create_rectangle returns 4 pairwise distinct corners
\* (lon -/+ dx, lat +/- dy) with dx > 0 and dy > 0, and the mean of the 4
\* corners equals the input center exactly.
C1_Original ==
    (geo.called /\ geo.coords # <<>> /\ geo.width_km > 0 /\ geo.height_km > 0)
    => /\ PairwiseDistinct4(geo.coords)
       /\ CornersByFormula(geo.coords, geo.lat, geo.lon, GeoDx, GeoDy)
       /\ GeoDx > 0 /\ GeoDy > 0
       /\ Mean4(geo.coords, 1) = geo.lon
       /\ Mean4(geo.coords, 2) = geo.lat

\* C1 (amended): for every center with |lat| < 90 and width_km, height_km in
\* the range [1, 100] km the user interface allows, create_rectangle returns 4
\* pairwise distinct corners (lon -/+ dx, lat +/- dy), where dy is
\* (height_km/2)/111 and dx is (width_km/2)/(111*|cos(lat)|), each rounded to
\* a float and both > 0, and the mean of the 4 corners is within one rounding
\* unit of the largest corner coordinate of the input center.
C1_Rectangle ==
    (geo.called /\ geo.coords # <<>>
       /\ InUiRange(geo.width_km) /\ InUiRange(geo.height_km))
    => /\ PairwiseDistinct4(geo.coords)
       /\ CornersByFormula(geo.coords, geo.lat, geo.lon, GeoDx, GeoDy)
       /\ GeoDx > 0 /\ GeoDy > 0
       /\ 2 * Abs(2 * KmPerDegree * GeoDy - geo.height_km)
             <= 2 * KmPerDegree * Ulp(GeoDy)
       /\ LET m == FMulInt(KmPerDegree, CosRadians(geo.lat))
          IN  2 * Abs(GeoDx * m - (geo.width_km \div 2) * Unit) <= m * Ulp(GeoDx)
       /\ Abs(Mean4(geo.coords, 1) - geo.lon) <= Ulp(MaxAbs(geo.coords, 1))
       /\ Abs(Mean4(geo.coords, 2) - geo.lat) <= Ulp(MaxAbs(geo.coords, 2))

\* a rectangle of the allowed size, off the equator, whose corner mean is not
\* exactly the center
C1_Witness ==
    /\ geo.called /\ geo.coords # <<>>
    /\ InUiRange(geo.width_km) /\ InUiRange(geo.height_km)
    /\ geo.lat # 0
    /\ Mean4(geo.coords, 1) # geo.lon

(***************************************************************************)
(* What a finished generate_kml of session s has produced.                 *)
(***************************************************************************)
Returned(s) == sess[s].pc \in {"create_kmz", "generate_shapefile",
                               "downloads", "done"}
Rows(s) == sess[s].df.rows
Features(s) == sess[s].kml.features
KindCount(features, kind) ==
    Cardinality({i \in 1..Len(features) : features[i].kind = kind})

RectangleOf(s, i) ==
    Corners(Rows(s)[i].lat.val, Rows(s)[i].lon.val, sess[s].width_km,
            sess[s].height_km)

\* ring starts at the north-west corner and runs NW, NE, SE, SW
Clockwise(ring) ==
    /\ ring[1][1] < ring[2][1] /\ ring[1][2] = ring[2][2]
    /\ ring[2][1] = ring[3][1] /\ ring[2][2] > ring[3][2]
    /\ ring[3][1] > ring[4][1] /\ ring[3][2] = ring[4][2]
    /\ ring[4][1] = ring[1][1] /\ ring[4][2] < ring[1][2]

\* the KML document at the run's path, as it is on disk
SavedKml(s) == fs.files[sess[s].kml_path]

\* C2: for every input row, the ring serialized into the overlay polygon has 5
\* coordinate pairs: the corners top-left, top-right, bottom-right,
\* bottom-left in that order (clockwise from the north-west), then the first
\* corner again.
C2_ClosedRing ==
    \A s \in active :
        sess[s].pc = "create_kmz" =>
            \A i \in 1..Len(Rows(s)) :
                LET ring == SavedKml(s).features[2 * i - 1].outerboundaryis
                IN  /\ Len(ring) = 5
                    /\ SubSeq(ring, 1, 4) = RectangleOf(s, i)
                    /\ Clockwise(ring)
                    /\ ring[5] = ring[1]

C2_Witness ==
    \E s \in active :
        /\ sess[s].pc = "create_kmz"
        /\ Len(Rows(s)) = 2
        /\ Len(SavedKml(s).features[3].outerboundaryis) = 5

\* C3: for a table of N rows, generate_kml builds a list of exactly N
\* rectangles, the i-th carrying the CODE and the rectangle of the i-th row;
\* the document holds exactly N polygon and N point placemarks, and the list
\* handed to generate_shapefile is that same list of N records.
C3_OnePerRow ==
    \A s \in active :
        Returned(s) =>
            /\ Len(sess[s].polygons) = Len(Rows(s))
            /\ \A i \in 1..Len(Rows(s)) :
                  /\ sess[s].polygons[i].CODE = Rows(s)[i].code
                  /\ SubSeq(sess[s].polygons[i].geometry.exterior, 1, 4)
                        = RectangleOf(s, i)
            /\ KindCount(Features(s), "Polygon") = Len(Rows(s))
            /\ KindCount(Features(s), "Point") = Len(Rows(s))

\* two rows with codes A and B, at the call of generate_shapefile
C3_Witness ==
    \E s \in active :
        /\ sess[s].pc = "generate_shapefile"
        /\ Len(Rows(s)) = 2
        /\ Rows(s)[1].code = "A" /\ Rows(s)[2].code = "B"
        /\ Len(sess[s].polygons) = 2

(***************************************************************************)
(* The vector dataset of session s's run, as it is on disk.                *)
(***************************************************************************)
ShapefileWritten(s) == sess[s].pc \in {"downloads", "done"}
Dbf(s) == fs.files[WithExt(sess[s].shapefile_path, ".dbf")]
Shp(s) == fs.files[WithExt(sess[s].shapefile_path, ".shp")]
Shx(s) == fs.files[WithExt(sess[s].shapefile_path, ".shx")]
Codes(s) == {Rows(s)[i].code : i \in 1..Len(Rows(s))}

\* C4 as stated: the written dataset has as many records as there are
\* distinct CODE values; rows with the same CODE collapse to one record.
C4_Original ==
    \A s \in active :
        (sess[s].pc = "downloads")
        => /\ Len(Dbf(s).CODE) = Cardinality(Codes(s))
           /\ Shx(s).records = Cardinality(Codes(s))

\* C4 (amended): the written dataset has one record per entry of the
\* collection, in input order; two rows with the same CODE give two records
\* with that CODE, each with its own rectangle.
C4_RecordPerRow ==
    \A s \in active :
        (sess[s].pc = "downloads")
        => /\ Len(Dbf(s).CODE) = Len(Rows(s))
           /\ Shx(s).records = Len(Rows(s))
           /\ Len(Shp(s).geometry) = Len(Rows(s))
           /\ \A i \in 1..Len(Rows(s)) :
                 /\ Dbf(s).CODE[i] = Rows(s)[i].code
                 /\ SubSeq(Shp(s).geometry[i].exterior, 1, 4) = RectangleOf(s, i)

\* two rows with the same CODE at different centers, written as two records
C4_Witness ==
    \E s \in active :
        /\ sess[s].pc = "downloads"
        /\ Len(Rows(s)) = 2
        /\ Rows(s)[1].code = Rows(s)[2].code
        /\ Rows(s)[1].lat # Rows(s)[2].lat
        /\ Len(Dbf(s).CODE) = 2

\* the table lacks a required column, or a row holds a malformed value
Invalid(df) ==
    \/ ~(RequiredColumns \subseteq df.columns)
    \/ \E i \in 1..Len(df.rows) :
          ~IsNumber(df.rows[i].lat) \/ ~IsNumber(df.rows[i].lon)

\* C5: if the table lacks a required column or a row holds a malformed
\* value, the run ends in failure, and when it fails no KML, KMZ or
\* shapefile file has been written by it; this for every table, a table
\* with zero data rows included.
C5_NoPartialOutput ==
    \A s \in active :
        Invalid(sess[s].df) =>
            /\ sess[s].pc # "done"
            /\ sess[s].pc = "failed" => sess[s].wrote = {}

\* C6: starting from a state where ./AOI_Files does not exist, generate_kml
\* and generate_shapefile, each called on its own, create the directory
\* before writing: no write is attempted into a directory that is not there.
C6_WriterCreatesDir ==
    (api.fn \in {"generate_kml", "generate_shapefile"} /\ ~api.dir_before)
    => /\ fs.dir
       /\ ~api.nodir

\* the base name without its last piece (the extension)
Stem(base) == SubSeq(base, 1, Len(base) - 1)

\* C7: create_kmz, called with the path of the KML file generate_kml has just
\* saved, writes an archive in the same directory, with the same base name
\* and the extension .kmz, that holds exactly one entry, named by the KML
\* file's base name, whose content is that KML document; the KML file is
\* left unchanged.
C7_KmzWrapsKml ==
    \A s \in active :
        sess[s].pc = "generate_shapefile" =>
            LET kml_path == sess[s].kml_path
                kmz_path == sess[s].kmz_path
            IN  /\ kmz_path.dir = kml_path.dir
                /\ kml_path.base = FileName(s) \o <<"_AOIs_with_centers", ".kml">>
                /\ kmz_path.base = Stem(kml_path.base) \o <<".kmz">>
                /\ Exists(fs, kmz_path)
                /\ fs.files[kmz_path] =
                      [type |-> "zip",
                       entries |-> <<[name |-> kml_path.base,
                                      data |-> sess[s].kml]>>]
                /\ Exists(fs, kml_path)
                /\ fs.files[kml_path] = sess[s].kml

\* an upload named a.kml.xlsx, its KMZ just built from a KML of two rows
C7_Witness ==
    \E s \in active :
        /\ sess[s].pc = "generate_shapefile"
        /\ sess[s].name = <<"a", ".kml", ".xlsx">>
        /\ Len(sess[s].kml.features) = 4
        /\ Exists(fs, sess[s].kmz_path)

\* C8: a second run on the same rows, width, height and file name writes the
\* same paths with the same content as the first: nothing of the first run
\* accumulates; the overlay still holds one polygon and one point per row and
\* the vector dataset one record per row.
C8_Idempotent ==
    \A s \in active :
        (active = {s} /\ sess[s].pc = "done" /\ sess[s].runs >= 2)
        => /\ fs.files = sess[s].first
           /\ KindCount(SavedKml(s).features, "Polygon") = Len(Rows(s))
           /\ KindCount(SavedKml(s).features, "Point") = Len(Rows(s))
           /\ Len(fs.files[sess[s].kmz_path].entries) = 1
           /\ Len(Dbf(s).CODE) = Len(Rows(s))

C8_Witness ==
    \E s \in active :
        /\ active = {s} /\ sess[s].pc = "done" /\ sess[s].runs = 2
        /\ Len(Rows(s)) = 2
        /\ sess[s].first # <<>>

\* C9: for each row, generate_kml emits one polygon named by the row's CODE
\* whose boundary is the row's rectangle, and one point placed at the row's
\* own center (CENTER LONG, CENTER LAT) and labeled with the row's code and
\* center coordinates; the point is never at a corner or at another row's
\* center.
C9_PointAtCenter ==
    \A s \in active :
        Returned(s) =>
            /\ Len(Features(s)) = 2 * Len(Rows(s))
            /\ \A i \in 1..Len(Rows(s)) :
                  LET pol == Features(s)[2 * i - 1]
                      point == Features(s)[2 * i]
                      row == Rows(s)[i]
                  IN  /\ pol.kind = "Polygon"
                      /\ pol.name = row.code
                      /\ SubSeq(pol.outerboundaryis, 1, 4) = RectangleOf(s, i)
                      /\ point.kind = "Point"
                      /\ point.coords = <<row.lon.val, row.lat.val>>
                      /\ point.name = <<"Center", row.code, "Lat", row.lat.val,
                                        "Lon", row.lon.val>>
                      /\ \A j \in 1..5 : point.coords # pol.outerboundaryis[j]

\* two rows at different centers
C9_Witness ==
    \E s \in active :
        /\ sess[s].pc = "create_kmz"
        /\ Len(Rows(s)) = 2
        /\ Rows(s)[1].lat # Rows(s)[2].lat
        /\ Features(s)[4].kind = "Point"

(***************************************************************************)
(* Two runs on the same output path.                                       *)
(***************************************************************************)
BothDone == active = {1, 2} /\ \A s \in active : sess[s].pc = "done"
SamePath == FileName(1) = FileName(2)

CodesOf(polygons) == [i \in 1..Len(polygons) |-> polygons[i].CODE]
GeometryOf(polygons) == [i \in 1..Len(polygons) |-> polygons[i].geometry]

\* the files at session s's paths are all the output of session r's run
AllFrom(s, r) ==
    /\ SavedKml(s) = sess[r].kml
    /\ fs.files[sess[s].kmz_path].entries[1].data = sess[r].kml
    /\ Dbf(s).CODE = CodesOf(sess[r].polygons)
    /\ Shp(s).geometry = GeometryOf(sess[r].polygons)

\* C10 as stated: after two interleaved runs with the same file name have
\* both finished, the KML, the KMZ and the shapefile on disk are all the
\* output of one and the same run.
C10_Original ==
    (BothDone /\ SamePath) => \E r \in active : AllFrom(1, r)

\* C10 (amended): after two runs with the same file name, interleaved step by
\* step (save KML, build KMZ, write shapefile), have both finished, each file
\* on disk is the output of the run that wrote that file last: the KML is the
\* document of the run that saved last, the KMZ wraps exactly the KML on
\* disk, and the shapefile is the dataset of the run that wrote it last,
\* which need not be the run the KML comes from.
C10_LastWriterPerFile ==
    (BothDone /\ SamePath)
    => /\ SavedKml(1) = sess[lastw[sess[1].kml_path]].kml
       /\ fs.files[sess[1].kmz_path].entries
             = <<[name |-> sess[1].kml_path.base, data |-> SavedKml(1)]>>
       /\ LET w == lastw[WithExt(sess[1].shapefile_path, ".dbf")]
          IN  /\ Dbf(1).CODE = CodesOf(sess[w].polygons)
              /\ Shp(1).geometry = GeometryOf(sess[w].polygons)
              /\ lastw[WithExt(sess[1].shapefile_path, ".shp")] = w

\* both runs finished on the same path with different tables, the KML from
\* one run and the shapefile from the other
C10_Witness ==
    /\ BothDone /\ SamePath
    /\ sess[1].df # sess[2].df
    /\ lastw[sess[1].kml_path] # lastw[WithExt(sess[1].shapefile_path, ".dbf")]

=============================================================================
